---- MODULE Spec2Model ----
(***************************************************************************)
(* Administration and OTA control plane of the METAR Lightworks firmware:  *)
(* the request handlers of METARLightworks_App/AdminUI.h (single-strip     *)
(* lamp) and METARLightworks_Map/AdminUI.h (multi-node map), over the      *)
(* AppConfig record of AppTypes.h.                                         *)
(*                                                                         *)
(* Arduino Strings that the code inspects (trim, toUpperCase,              *)
(* equalsIgnoreCase, ==) are tuples of one-character strings; Strings the  *)
(* code only copies are plain TLA+ strings.  A request argument that is    *)
(* converted with toInt() is <<>> when the parameter is missing or not a   *)
(* number and <<n>> when it is the decimal text of n.                      *)
(***************************************************************************)
EXTENDS Integers, Sequences, FiniteSets, TLC

VARIABLES
  image,               \* which firmware image runs: "App" (lamp) or "Map"
  chipC3,              \* isChipC3(): ESP.getChipModel() contains "C3"
  cfg,                 \* extern AppConfig cfg: the live record
  disk,                \* the record in /config.json, written by saveConfig()
  otaState,            \* OtaStatus.state
  otaUpdateAvailable,  \* extern bool otaUpdateAvailable
  otaLastCheckMs,      \* extern unsigned long otaLastCheckMs (in days)
  otaStatusLine,       \* extern String otaStatusLine
  now,                 \* the scheduler's clock (in days since boot)
  pc,                  \* where the control loop is
  req,                 \* the request being served, or served last
  log,                 \* what that request did, in order
  resp,                \* the response it sent
  probe                \* operand of the pure-function specifications

vars == <<image, chipC3, cfg, disk, otaState, otaUpdateAvailable,
          otaLastCheckMs, otaStatusLine, now, pc, req, log, resp, probe>>

otaVars == <<otaState, otaUpdateAvailable, otaLastCheckMs, otaStatusLine>>

----------------------------------------------------------------------------
(* Bounds of the model *)

MaxNow == 1          \* the clock stops advancing at this many days

MaxLen == 4          \* longest string drawn by the colour-order specification

PinPad == 3          \* the pin specification draws -PinPad .. 39 + PinPad

CountPad == 2        \* the count specification draws within CountPad of 1 and of 300

DaysPad == 2         \* the settings specification draws within DaysPad of 1 and of 60

BrightPad == 2       \* the brightness specification draws within BrightPad of 1 and of 255

----------------------------------------------------------------------------
(* Arduino String operations *)

LowerAlpha == <<"a","b","c","d","e","f","g","h","i","j","k","l","m",
                "n","o","p","q","r","s","t","u","v","w","x","y","z">>

UpperAlpha == <<"A","B","C","D","E","F","G","H","I","J","K","L","M",
                "N","O","P","Q","R","S","T","U","V","W","X","Y","Z">>

IsSpace(c) == c \in {" ", "\t", "\n", "\r"}

\* toupper() and tolower() of <ctype.h>, letter by letter
Letters == {LowerAlpha[i] : i \in 1..26} \cup {UpperAlpha[i] : i \in 1..26}

ToUpperMap ==
  [c \in Letters |->
     IF \E i \in 1..26 : LowerAlpha[i] = c
     THEN UpperAlpha[CHOOSE i \in 1..26 : LowerAlpha[i] = c]
     ELSE c]

ToLowerMap ==
  [c \in Letters |->
     IF \E i \in 1..26 : UpperAlpha[i] = c
     THEN LowerAlpha[CHOOSE i \in 1..26 : UpperAlpha[i] = c]
     ELSE c]

ToUpperChar(c) == IF c \in Letters THEN ToUpperMap[c] ELSE c

ToLowerChar(c) == IF c \in Letters THEN ToLowerMap[c] ELSE c

toUpperCase(s) == [i \in 1..Len(s) |-> ToUpperChar(s[i])]

toLowerCase(s) == [i \in 1..Len(s) |-> ToLowerChar(s[i])]

RECURSIVE TrimLeft(_)
TrimLeft(s) ==
  IF Len(s) > 0 /\ IsSpace(s[1]) THEN TrimLeft(Tail(s)) ELSE s

RECURSIVE TrimRight(_)
TrimRight(s) ==
  IF Len(s) > 0 /\ IsSpace(s[Len(s)])
  THEN TrimRight(SubSeq(s, 1, Len(s) - 1))
  ELSE s

trim(s) == TrimRight(TrimLeft(s))

equalsIgnoreCase(s, t) ==
  /\ Len(s) = Len(t)
  /\ \A i \in 1..Len(s) : ToLowerChar(s[i]) = ToLowerChar(t[i])

toInt(a) == IF Len(a) = 0 THEN 0 ELSE a[1]

----------------------------------------------------------------------------
(* AppConfig *)

AppDefaultCfg ==
  [ brightness      |-> 100,
    otaCheckOnBoot  |-> TRUE,
    otaAutoUpdate   |-> FALSE,
    otaIntervalDays |-> 7,
    led_pin         |-> 5,
    led_count       |-> 1,
    led_order       |-> <<"R","G","B">> ]

MapDefaultCfg ==
  [ provisioned     |-> FALSE,
    app_role        |-> <<>>,
    map_list        |-> "VFR,MVFR,IFR,LIFR,SKIP",
    brightness      |-> 120,
    led_pin         |-> 5,
    led_count       |-> 1,
    led_order       |-> <<"G","R","B">>,
    otaCheckOnBoot  |-> TRUE,
    otaAutoUpdate   |-> FALSE,
    otaIntervalDays |-> 7 ]

----------------------------------------------------------------------------
(* Chip helpers and the pin policy *)

AppIsSafeGpioForNeoPixel(c3, pin) ==
  IF pin < 0 THEN FALSE
  ELSE IF c3 THEN
    IF pin > 21 THEN FALSE
    ELSE IF pin = 18 \/ pin = 19 THEN FALSE
    ELSE TRUE
  ELSE IF pin >= 6 /\ pin <= 11 THEN FALSE
  ELSE IF pin >= 34 /\ pin <= 39 THEN FALSE
  ELSE IF pin = 0 \/ pin = 2 \/ pin = 12 \/ pin = 15 THEN FALSE
  ELSE IF pin = 1 \/ pin = 3 THEN FALSE
  ELSE pin <= 33

\* a variant that forgets the UART pins of the standard chip
MapIsSafeGpioForNeoPixel_NoUart(c3, pin) ==
  IF pin < 0 THEN FALSE
  ELSE IF c3 THEN
    IF pin > 21 THEN FALSE
    ELSE IF pin = 18 \/ pin = 19 THEN FALSE
    ELSE TRUE
  ELSE IF pin >= 6 /\ pin <= 11 THEN FALSE
  ELSE IF pin >= 34 /\ pin <= 39 THEN FALSE
  ELSE IF pin = 0 \/ pin = 2 \/ pin = 12 \/ pin = 15 THEN FALSE
  ELSE pin <= 33

MapIsSafeGpioForNeoPixel(c3, pin) ==
  IF pin < 0 THEN FALSE
  ELSE IF c3 THEN
    IF pin > 21 THEN FALSE
    ELSE IF pin = 18 \/ pin = 19 THEN FALSE
    ELSE TRUE
  ELSE IF pin >= 6 /\ pin <= 11 THEN FALSE
  ELSE IF pin >= 34 /\ pin <= 39 THEN FALSE
  ELSE IF pin = 0 \/ pin = 2 \/ pin = 12 \/ pin = 15 THEN FALSE
  ELSE IF pin = 1 \/ pin = 3 THEN FALSE
  ELSE pin <= 33

isSafeGpioForNeoPixel(img, c3, pin) ==
  IF img = "App" THEN AppIsSafeGpioForNeoPixel(c3, pin)
                 ELSE MapIsSafeGpioForNeoPixel(c3, pin)

\* a variant that lost the comparison with "BRG"
OrderAccepted_NoBRG(order) ==
  \/ order = <<"R","G","B">>
  \/ order = <<"R","B","G">>
  \/ order = <<"G","R","B">>
  \/ order = <<"G","B","R">>
  \/ order = <<"B","G","R">>

\* order == "RGB" || order == "RBG" || ... || order == "BGR"
OrderAccepted(order) ==
  \/ order = <<"R","G","B">>
  \/ order = <<"R","B","G">>
  \/ order = <<"G","R","B">>
  \/ order = <<"G","B","R">>
  \/ order = <<"B","R","G">>
  \/ order = <<"B","G","R">>

----------------------------------------------------------------------------
(* Basic Auth *)

ADMIN_USER == "admin"

ADMIN_PASS == "north"

\* server.authenticate(ADMIN_USER, ADMIN_PASS)
\* a variant that compares the password only
authenticate_PasswordOnly(creds) == creds.pass = ADMIN_PASS

authenticate(creds) == creds.user = ADMIN_USER /\ creds.pass = ADMIN_PASS

----------------------------------------------------------------------------
(* What a request does is recorded as a sequence of events; what it leaves *)
(* behind is collected in an outcome record that Serve installs.           *)

Ev(op, arg) == [op |-> op, arg |-> arg]

Send(code, body) == [code |-> code, body |-> body]

NoResp == Send(0, "")

Out(c, d, l, r, p) ==
  [cfg |-> c, disk |-> d, log |-> l, resp |-> r, pc |-> p]

\* adminAuth() returned false: requestAuthentication() and nothing else
Challenge ==
  Out(cfg, disk,
      <<Ev("adminAuth", <<0>>), Ev("requestAuthentication", <<>>), Ev("send", <<401>>)>>,
      Send(401, "requestAuthentication"), "loop")

AuthOk == <<Ev("adminAuth", <<1>>)>>

\* saveConfig(): writes the live record c to /config.json; when the write
\* fails the previous file is kept
saveConfig(c, ok) == IF ok THEN c ELSE disk

B2N(b) == IF b THEN 1 ELSE 0

----------------------------------------------------------------------------
(* /admin/led/save *)

\* a variant whose count check has no upper limit
AppHandleAdminLedSave_NoUpperLimit(creds, pinArg, countArg, orderArg, saveOk) ==
  LET pin   == toInt(pinArg)
      count == toInt(countArg)
      order == toUpperCase(trim(orderArg))
      safe  == isSafeGpioForNeoPixel("App", chipC3, pin)
      q     == AuthOk \o <<Ev("isSafeGpioForNeoPixel", <<pin, B2N(safe)>>)>>
      c     == [cfg EXCEPT !.led_pin = pin, !.led_count = count, !.led_order = order]
      w     == q \o <<Ev("saveConfig", <<B2N(saveOk)>>)>>
  IN  IF ~authenticate(creds) THEN Challenge
      ELSE IF ~safe THEN
        Out(cfg, disk, q \o <<Ev("send", <<400>>)>>,
            Send(400, "Invalid/unsafe GPIO selected."), "loop")
      ELSE IF count < 1 THEN
        Out(cfg, disk, q \o <<Ev("send", <<400>>)>>,
            Send(400, "Invalid LED count."), "loop")
      ELSE IF ~OrderAccepted(order) THEN
        Out(cfg, disk, q \o <<Ev("send", <<400>>)>>,
            Send(400, "Invalid color order."), "loop")
      ELSE IF ~saveOk THEN
        Out(c, saveConfig(c, FALSE), w \o <<Ev("send", <<500>>)>>,
            Send(500, "Save failed."), "loop")
      ELSE
        Out(c, saveConfig(c, TRUE), w \o <<Ev("send", <<200>>)>>,
            Send(200, "Saved. Reboot required for LED changes."), "loop")

AppHandleAdminLedSave(creds, pinArg, countArg, orderArg, saveOk) ==
  LET pin   == toInt(pinArg)
      count == toInt(countArg)
      order == toUpperCase(trim(orderArg))
      safe  == isSafeGpioForNeoPixel("App", chipC3, pin)
      q     == AuthOk \o <<Ev("isSafeGpioForNeoPixel", <<pin, B2N(safe)>>)>>
      c     == [cfg EXCEPT !.led_pin = pin, !.led_count = count, !.led_order = order]
      w     == q \o <<Ev("saveConfig", <<B2N(saveOk)>>)>>
  IN  IF ~authenticate(creds) THEN Challenge
      ELSE IF ~safe THEN
        Out(cfg, disk, q \o <<Ev("send", <<400>>)>>,
            Send(400, "Invalid/unsafe GPIO selected."), "loop")
      ELSE IF count < 1 \/ count > 300 THEN
        Out(cfg, disk, q \o <<Ev("send", <<400>>)>>,
            Send(400, "Invalid LED count."), "loop")
      ELSE IF ~OrderAccepted(order) THEN
        Out(cfg, disk, q \o <<Ev("send", <<400>>)>>,
            Send(400, "Invalid color order."), "loop")
      ELSE IF ~saveOk THEN
        Out(c, saveConfig(c, FALSE), w \o <<Ev("send", <<500>>)>>,
            Send(500, "Save failed."), "loop")
      ELSE
        Out(c, saveConfig(c, TRUE), w \o <<Ev("send", <<200>>)>>,
            Send(200, "Saved. Reboot required for LED changes."), "loop")

\* a variant that stores the pin before anything was validated
MapHandleAdminLedSave_StoresPinFirst(creds, pinArg, orderArg, saveOk) ==
  LET pin   == toInt(pinArg)
      order == toUpperCase(trim(orderArg))
      safe  == isSafeGpioForNeoPixel("Map", chipC3, pin)
      q     == AuthOk \o <<Ev("isSafeGpioForNeoPixel", <<pin, B2N(safe)>>)>>
      e     == [cfg EXCEPT !.led_pin = pin]
      c     == [cfg EXCEPT !.led_pin = pin, !.led_order = order]
      w     == q \o <<Ev("saveConfig", <<B2N(saveOk)>>)>>
  IN  IF ~authenticate(creds) THEN Challenge
      ELSE IF ~safe THEN
        Out(e, disk, q \o <<Ev("send", <<400>>)>>,
            Send(400, "Invalid/unsafe GPIO selected."), "loop")
      ELSE IF ~OrderAccepted(order) THEN
        Out(e, disk, q \o <<Ev("send", <<400>>)>>,
            Send(400, "Invalid color order."), "loop")
      ELSE IF ~saveOk THEN
        Out(c, saveConfig(c, FALSE), w \o <<Ev("send", <<500>>)>>,
            Send(500, "Save failed."), "loop")
      ELSE
        Out(c, saveConfig(c, TRUE),
            w \o <<Ev("rebuildStripFromConfig", <<>>), Ev("send", <<200>>)>>,
            Send(200, "Saved."), "loop")

MapHandleAdminLedSave(creds, pinArg, orderArg, saveOk) ==
  LET pin   == toInt(pinArg)
      order == toUpperCase(trim(orderArg))
      safe  == isSafeGpioForNeoPixel("Map", chipC3, pin)
      q     == AuthOk \o <<Ev("isSafeGpioForNeoPixel", <<pin, B2N(safe)>>)>>
      c     == [cfg EXCEPT !.led_pin = pin, !.led_order = order]
      w     == q \o <<Ev("saveConfig", <<B2N(saveOk)>>)>>
  IN  IF ~authenticate(creds) THEN Challenge
      ELSE IF ~safe THEN
        Out(cfg, disk, q \o <<Ev("send", <<400>>)>>,
            Send(400, "Invalid/unsafe GPIO selected."), "loop")
      ELSE IF ~OrderAccepted(order) THEN
        Out(cfg, disk, q \o <<Ev("send", <<400>>)>>,
            Send(400, "Invalid color order."), "loop")
      ELSE IF ~saveOk THEN
        Out(c, saveConfig(c, FALSE), w \o <<Ev("send", <<500>>)>>,
            Send(500, "Save failed."), "loop")
      ELSE
        Out(c, saveConfig(c, TRUE),
            w \o <<Ev("rebuildStripFromConfig", <<>>), Ev("send", <<200>>)>>,
            Send(200, "Saved."), "loop")

----------------------------------------------------------------------------
(* /admin, /admin/led, /admin/led/test, /admin/reboot (both images) *)

handleAdminHome(creds) ==
  IF ~authenticate(creds) THEN Challenge
  ELSE Out(cfg, disk, AuthOk \o <<Ev("send", <<200>>)>>,
           Send(200, "Admin"), "loop")

handleAdminLed(creds) ==
  IF ~authenticate(creds) THEN Challenge
  ELSE Out(cfg, disk, AuthOk \o <<Ev("send", <<200>>)>>,
           Send(200, "LED Setup"), "loop")

\* a variant that clears the strip before refusing a bad colour
handleAdminLedTest_ClearsOnBadColor(creds, cArg) ==
  LET c == toLowerCase(trim(cArg))
      done(call) ==
        Out(cfg, disk, AuthOk \o <<call, Ev("send", <<200>>)>>,
            Send(200, "OK"), "loop")
  IN  IF ~authenticate(creds) THEN Challenge
      ELSE IF c = <<"r","e","d">> THEN
        done(Ev("setLEDColor", <<255, 0, 0>>))
      ELSE IF c = <<"g","r","e","e","n">> THEN
        done(Ev("setLEDColor", <<0, 255, 0>>))
      ELSE IF c = <<"b","l","u","e">> THEN
        done(Ev("setLEDColor", <<0, 0, 255>>))
      ELSE IF c = <<"o","f","f">> THEN
        done(Ev("clearLED", <<>>))
      ELSE
        Out(cfg, disk, AuthOk \o <<Ev("clearLED", <<>>), Ev("send", <<400>>)>>,
            Send(400, "Bad color. Use c=red|green|blue|off"), "loop")

handleAdminLedTest(creds, cArg) ==
  LET c == toLowerCase(trim(cArg))
      done(call) ==
        Out(cfg, disk, AuthOk \o <<call, Ev("send", <<200>>)>>,
            Send(200, "OK"), "loop")
  IN  IF ~authenticate(creds) THEN Challenge
      ELSE IF c = <<"r","e","d">> THEN
        done(Ev("setLEDColor", <<255, 0, 0>>))
      ELSE IF c = <<"g","r","e","e","n">> THEN
        done(Ev("setLEDColor", <<0, 255, 0>>))
      ELSE IF c = <<"b","l","u","e">> THEN
        done(Ev("setLEDColor", <<0, 0, 255>>))
      ELSE IF c = <<"o","f","f">> THEN
        done(Ev("clearLED", <<>>))
      ELSE
        Out(cfg, disk, AuthOk \o <<Ev("send", <<400>>)>>,
            Send(400, "Bad color. Use c=red|green|blue|off"), "loop")

\* a variant that clears the Map record's provisioning stamp on its way out
handleAdminReboot_ClearsStamp(creds) ==
  IF ~authenticate(creds) THEN Challenge
  ELSE Out(IF image = "Map" THEN [cfg EXCEPT !.provisioned = FALSE] ELSE cfg, disk,
           AuthOk \o <<Ev("send", <<200>>), Ev("restart", <<>>)>>,
           Send(200, "Rebooting..."), "halted")

handleAdminReboot(creds) ==
  IF ~authenticate(creds) THEN Challenge
  ELSE Out(cfg, disk, AuthOk \o <<Ev("send", <<200>>), Ev("restart", <<>>)>>,
           Send(200, "Rebooting..."), "halted")

----------------------------------------------------------------------------
(* Map image: /, /save, /refresh, /reboot, /ota/settings, not-found *)

\* a variant that looks at the role only
MapProvisioned_RoleOnly(c) ==
  /\ Len(c.app_role) # 0
  /\ equalsIgnoreCase(c.app_role, <<"m","a","p">>)

\* cfg.provisioned && cfg.app_role.length() && cfg.app_role.equalsIgnoreCase("map")
MapProvisioned(c) ==
  /\ c.provisioned
  /\ Len(c.app_role) # 0
  /\ equalsIgnoreCase(c.app_role, <<"m","a","p">>)

handleRoot ==
  Out(cfg, disk, <<Ev("send", <<200>>)>>,
      Send(200, IF MapProvisioned(cfg) THEN "METAR Map" ELSE "NOT PROVISIONED"),
      "loop")

\* a variant that adds the submitted brightness to the one in the record
handleSave_AddsBrightness(mapListArg, brightArg, saveOk) ==
  LET b0 == cfg.brightness + toInt(brightArg)
      b1 == IF b0 < 1 THEN 1 ELSE b0
      b2 == IF b1 > 255 THEN 255 ELSE b1
      c  == [cfg EXCEPT !.map_list = mapListArg, !.brightness = b2]
      w  == <<Ev("saveConfig", <<B2N(saveOk)>>)>>
  IN  IF ~MapProvisioned(cfg) THEN
        Out(cfg, disk, <<Ev("send", <<403>>)>>,
            Send(403, "Not provisioned"), "loop")
      ELSE IF ~saveOk THEN
        Out(c, saveConfig(c, FALSE), w \o <<Ev("send", <<500>>)>>,
            Send(500, "Save failed"), "loop")
      ELSE
        Out(c, saveConfig(c, TRUE),
            w \o <<Ev("refreshNow", <<>>), Ev("send", <<302>>)>>,
            Send(302, "Saved"), "loop")

handleSave(mapListArg, brightArg, saveOk) ==
  LET b0 == toInt(brightArg)
      b1 == IF b0 < 1 THEN 1 ELSE b0
      b2 == IF b1 > 255 THEN 255 ELSE b1
      c  == [cfg EXCEPT !.map_list = mapListArg, !.brightness = b2]
      w  == <<Ev("saveConfig", <<B2N(saveOk)>>)>>
  IN  IF ~MapProvisioned(cfg) THEN
        Out(cfg, disk, <<Ev("send", <<403>>)>>,
            Send(403, "Not provisioned"), "loop")
      ELSE IF ~saveOk THEN
        Out(c, saveConfig(c, FALSE), w \o <<Ev("send", <<500>>)>>,
            Send(500, "Save failed"), "loop")
      ELSE
        Out(c, saveConfig(c, TRUE),
            w \o <<Ev("refreshNow", <<>>), Ev("send", <<302>>)>>,
            Send(302, "Saved"), "loop")

handleRefresh ==
  IF ~MapProvisioned(cfg) THEN
    Out(cfg, disk, <<Ev("send", <<403>>)>>,
        Send(403, "Not provisioned"), "loop")
  ELSE
    Out(cfg, disk, <<Ev("refreshNow", <<>>), Ev("send", <<200>>)>>,
        Send(200, "OK"), "loop")

\* a variant that restarts without answering
handleReboot_RestartsFirst ==
  Out(cfg, disk, <<Ev("restart", <<>>)>>, NoResp, "halted")

handleReboot ==
  Out(cfg, disk, <<Ev("send", <<200>>), Ev("restart", <<>>)>>,
      Send(200, "Rebooting..."), "halted")

\* a variant that clamps the days from below only
handleOtaSettings_NoUpperClamp(autoArg, daysArg, saveOk) ==
  LET a  == toLowerCase(trim(autoArg))
      d0 == toInt(daysArg)
      d1 == IF d0 < 1 THEN 1 ELSE d0
      d2 == d1
      c  == [cfg EXCEPT !.otaAutoUpdate = (a = <<"o","n">>),
                        !.otaIntervalDays = d2]
      w  == <<Ev("saveConfig", <<B2N(saveOk)>>)>>
  IN  IF ~saveOk THEN
        Out(c, saveConfig(c, FALSE), w \o <<Ev("send", <<500>>)>>,
            Send(500, "Save failed"), "loop")
      ELSE
        Out(c, saveConfig(c, TRUE), w \o <<Ev("send", <<200>>)>>,
            Send(200, "Saved"), "loop")

handleOtaSettings(autoArg, daysArg, saveOk) ==
  LET a  == toLowerCase(trim(autoArg))
      d0 == toInt(daysArg)
      d1 == IF d0 < 1 THEN 1 ELSE d0
      d2 == IF d1 > 60 THEN 60 ELSE d1
      c  == [cfg EXCEPT !.otaAutoUpdate = (a = <<"o","n">>),
                        !.otaIntervalDays = d2]
      w  == <<Ev("saveConfig", <<B2N(saveOk)>>)>>
  IN  IF ~saveOk THEN
        Out(c, saveConfig(c, FALSE), w \o <<Ev("send", <<500>>)>>,
            Send(500, "Save failed"), "loop")
      ELSE
        Out(c, saveConfig(c, TRUE), w \o <<Ev("send", <<200>>)>>,
            Send(200, "Saved"), "loop")

handleNotFound ==
  Out(cfg, disk, <<Ev("send", <<302>>)>>, Send(302, "Redirect"), "loop")

----------------------------------------------------------------------------
(* OTA actions of the .ino, as section 4.5 of the specification states     *)
(* them, and the two handlers that call otaCheckNow()                      *)

\* otaCheckNow(): the synchronous query ended with `outcome`
otaCheckNow(outcome) ==
  CASE outcome = "newer" ->
         [ok |-> TRUE, state |-> "Available", avail |-> TRUE,
          status |-> "Update available"]
    [] outcome = "none" ->
         [ok |-> TRUE, state |-> "UpToDate", avail |-> FALSE,
          status |-> "Up to date"]
    [] OTHER ->
         [ok |-> FALSE, state |-> "Failed", avail |-> FALSE,
          status |-> "Check failed"]

\* a variant that fires whatever the controller's state
otaMaybeAutoCheck_AnyState(c, t, last, state) ==
  /\ c.otaAutoUpdate
  /\ t - last >= c.otaIntervalDays

\* otaMaybeAutoCheck(): does the policy fire at time t?
otaMaybeAutoCheck(c, t, last, state) ==
  /\ c.otaAutoUpdate
  /\ t - last >= c.otaIntervalDays
  /\ state \in {"Idle", "UpToDate", "Failed"}

\* a variant that answers 200 whatever the check returned
handleOtaCheck_Always200(r) ==
  [log     |-> <<Ev("send", <<200>>)>>,
   resp    |-> Send(200, r.status),
   install |-> FALSE]

\* handleOtaCheck after otaCheckNow() returned r
handleOtaCheck(r) ==
  [log     |-> <<Ev("send", <<IF r.ok THEN 200 ELSE 500>>)>>,
   resp    |-> Send(IF r.ok THEN 200 ELSE 500, r.status),
   install |-> FALSE]

\* a variant that installs after any successful check
handleOtaInstall_IgnoresAvailable(r) ==
  IF ~r.ok THEN
    [log |-> <<Ev("send", <<500>>)>>, resp |-> Send(500, r.status),
     install |-> FALSE]
  ELSE
    [log |-> <<Ev("send", <<200>>), Ev("otaInstallNow", <<>>)>>,
     resp |-> Send(200, "Installing update... device will reboot."),
     install |-> TRUE]

\* handleOtaInstall after otaCheckNow() returned r
handleOtaInstall(r) ==
  IF ~r.ok THEN
    [log |-> <<Ev("send", <<500>>)>>, resp |-> Send(500, r.status),
     install |-> FALSE]
  ELSE IF ~r.avail THEN
    [log |-> <<Ev("send", <<200>>)>>, resp |-> Send(200, "No update available"),
     install |-> FALSE]
  ELSE
    [log |-> <<Ev("send", <<200>>), Ev("otaInstallNow", <<>>)>>,
     resp |-> Send(200, "Installing update... device will reboot."),
     install |-> TRUE]

----------------------------------------------------------------------------
(* Request inputs *)

GoodCreds == [user |-> "admin", pass |-> "north"]

BadCreds == [user |-> "admin", pass |-> "south"]

Creds == { GoodCreds, BadCreds }

PinArgs == { <<>>, <<18>>, <<-1>> }

CountArgs == { <<>>, <<300>>, <<301>> }

OrderArgs == { <<" ","b","g","r">>, <<"R","G","G">> }

ColorArgs == { <<" ","R","e","d">>, <<"o","f","f">>, <<"w","h","i","t","e">> }

MapListArgs == { "KJFK,SKIP" }

BrightArgs == { <<>> }

AutoArgs == { <<"O","n"," ">>, <<"o","f","f">> }

DaysArgs == { <<>> }

CheckOutcomes == { "newer", "none", "error" }

\* the devices the model boots: the chip, and for the Map image the
\* provisioning stamp Factory left in /config.json
MapBoots ==
  { [c3 |-> FALSE, provisioned |-> FALSE, app_role |-> <<>>],
    [c3 |-> TRUE,  provisioned |-> FALSE, app_role |-> <<"M","a","p">>],
    [c3 |-> FALSE, provisioned |-> TRUE,  app_role |-> <<"l","a","m","p">>],
    [c3 |-> TRUE,  provisioned |-> TRUE,  app_role |-> <<"M","a","p">>] }

----------------------------------------------------------------------------
(* The control loop *)

\* a request: its route and the credentials and parameters it carries
Req(route, args) == [route |-> route, args |-> args]

Device ==
  /\ \/ /\ image = "App"
        /\ chipC3 \in BOOLEAN
        /\ cfg = AppDefaultCfg
     \/ /\ image = "Map"
        /\ \E b \in MapBoots :
             /\ chipC3 = b.c3
             /\ cfg = [MapDefaultCfg EXCEPT !.provisioned = b.provisioned,
                                            !.app_role = b.app_role]
  /\ disk = cfg
  /\ otaState = "Idle"
  /\ otaUpdateAvailable = FALSE
  /\ otaLastCheckMs = 0
  /\ otaStatusLine = "Idle"
  /\ now = 0
  /\ pc = "loop"
  /\ req = Req("boot", <<>>)
  /\ log = <<>>
  /\ resp = NoResp

Init == Device /\ probe = <<>>

\* server.handleClient() dispatches one request to its handler, which runs
\* to its end
Serve(route, args, out) ==
  /\ pc = "loop"
  /\ req' = Req(route, args)
  /\ cfg' = out.cfg
  /\ disk' = out.disk
  /\ log' = out.log
  /\ resp' = out.resp
  /\ pc' = out.pc
  /\ UNCHANGED <<image, chipC3, otaVars, now, probe>>

AdminHome == \E k \in Creds : Serve("/admin", <<k>>, handleAdminHome(k))

AdminLed == \E k \in Creds : Serve("/admin/led", <<k>>, handleAdminLed(k))

\* POST /admin/led/save with pin=p, count=n, order=o; the Map image does
\* not read count
LedSave(k, p, n, o, ok) ==
  Serve("/admin/led/save", <<k, p, n, o>>,
        IF image = "App" THEN AppHandleAdminLedSave(k, p, n, o, ok)
                         ELSE MapHandleAdminLedSave(k, p, o, ok))

AdminLedSave ==
  \E k \in Creds :
  \E p \in IF k = GoodCreds THEN PinArgs ELSE {<<18>>},
     n \in IF k = GoodCreds /\ image = "App" THEN CountArgs ELSE {<<300>>},
     o \in IF k = GoodCreds THEN OrderArgs ELSE {<<" ","b","g","r">>},
     ok \in BOOLEAN :
    LedSave(k, p, n, o, ok)

AdminLedTest ==
  \E k \in Creds, c \in ColorArgs : Serve("/admin/led/test", <<k, c>>, handleAdminLedTest(k, c))

AdminReboot == \E k \in Creds : Serve("/admin/reboot", <<k>>, handleAdminReboot(k))

Root == image = "Map" /\ Serve("/", <<>>, handleRoot)

Save ==
  /\ image = "Map"
  /\ \E m \in MapListArgs, b \in BrightArgs, ok \in BOOLEAN :
       Serve("/save", <<m, b>>, handleSave(m, b, ok))

Refresh == image = "Map" /\ Serve("/refresh", <<>>, handleRefresh)

Reboot == image = "Map" /\ Serve("/reboot", <<>>, handleReboot)

OtaSettings ==
  /\ image = "Map"
  /\ \E a \in AutoArgs, d \in DaysArgs, ok \in BOOLEAN :
       Serve("/ota/settings", <<a, d>>, handleOtaSettings(a, d, ok))

NotFound == image = "Map" /\ Serve("*", <<>>, handleNotFound)

\* a handler, or the tick, enters otaCheckNow(): the loop blocks in the query
BeginCheck(route, where) ==
  /\ pc = "loop"
  /\ image = "Map"
  /\ req' = Req(route, <<>>)
  /\ log' = <<Ev("otaCheckNow", <<>>)>>
  /\ resp' = NoResp
  /\ otaState' = "Checking"
  /\ otaStatusLine' = "Checking..."
  /\ pc' = where
  /\ UNCHANGED <<image, chipC3, cfg, disk, otaUpdateAvailable, otaLastCheckMs,
                 now, probe>>

OtaCheck == BeginCheck("/ota/check", "check")

OtaInstall == BeginCheck("/ota/install", "install_check")

\* loop(): time passes (d days) and otaMaybeAutoCheck() is evaluated
Tick ==
  \E d \in {0, 1} :
    /\ pc = "loop"
    /\ image = "Map"
    /\ now + d <= MaxNow
    /\ now' = now + d
    /\ IF otaMaybeAutoCheck(cfg, now + d, otaLastCheckMs, otaState)
       THEN /\ log' = <<Ev("otaCheckNow", <<>>)>>
            /\ otaState' = "Checking"
            /\ otaStatusLine' = "Checking..."
            /\ pc' = "auto_check"
       ELSE /\ log' = <<>>
            /\ UNCHANGED <<otaState, otaStatusLine, pc>>
    /\ req' = Req("tick", <<>>)
    /\ resp' = NoResp
    /\ UNCHANGED <<image, chipC3, cfg, disk, otaUpdateAvailable, otaLastCheckMs,
                   probe>>

\* otaCheckNow() returns and its caller runs on
CheckReturns ==
  \E outcome \in CheckOutcomes :
    LET r == otaCheckNow(outcome)
        h == CASE pc = "check" -> handleOtaCheck(r)
               [] pc = "install_check" -> handleOtaInstall(r)
               [] OTHER -> [log |-> <<>>, resp |-> NoResp, install |-> FALSE]
    IN  /\ pc \in {"check", "install_check", "auto_check"}
        /\ otaUpdateAvailable' = r.avail
        /\ otaLastCheckMs' = now
        /\ otaStatusLine' = IF h.install THEN "Installing..." ELSE r.status
        /\ otaState' = IF h.install THEN "Installing" ELSE r.state
        /\ log' = log \o <<Ev("otaCheckNow:returned", <<B2N(r.ok), B2N(r.avail)>>)>> \o h.log
        /\ resp' = h.resp
        /\ pc' = IF h.install THEN "installing" ELSE "loop"
        /\ UNCHANGED <<image, chipC3, cfg, disk, now, req, probe>>

\* otaInstallNow() ends: restart on success, Failed otherwise
InstallReturns ==
  \E success \in BOOLEAN :
    /\ pc = "installing"
    /\ IF success
       THEN /\ log' = log \o <<Ev("restart", <<>>)>>
            /\ pc' = "halted"
            /\ UNCHANGED <<otaState, otaStatusLine>>
       ELSE /\ log' = log \o <<Ev("otaInstallNow:failed", <<>>)>>
            /\ pc' = "loop"
            /\ otaState' = "Failed"
            /\ otaStatusLine' = "Install failed"
    /\ UNCHANGED <<image, chipC3, cfg, disk, otaUpdateAvailable, otaLastCheckMs,
                   now, req, resp, probe>>

\* after ESP.restart(): setup() loads /config.json, OtaStatus starts over
Boot ==
  /\ pc = "halted"
  /\ cfg' = disk
  /\ otaState' = "Idle"
  /\ otaUpdateAvailable' = FALSE
  /\ otaLastCheckMs' = 0
  /\ otaStatusLine' = "Idle"
  /\ now' = 0
  /\ pc' = "loop"
  /\ req' = Req("boot", <<>>)
  /\ log' = <<>>
  /\ resp' = NoResp
  /\ UNCHANGED <<image, chipC3, disk, probe>>

Next ==
  \/ AdminHome
  \/ AdminLed
  \/ AdminLedSave
  \/ AdminLedTest
  \/ AdminReboot
  \/ Root
  \/ Save
  \/ Refresh
  \/ Reboot
  \/ OtaSettings
  \/ NotFound
  \/ OtaCheck
  \/ OtaInstall
  \/ Tick
  \/ CheckReturns
  \/ InstallReturns
  \/ Boot

Spec == Init /\ [][Next]_vars

TypeOK ==
  /\ image \in {"App", "Map"}
  /\ chipC3 \in BOOLEAN
  /\ pc \in {"loop", "check", "install_check", "auto_check", "installing", "halted"}
  /\ now \in 0..MaxNow
  /\ otaLastCheckMs \in 0..MaxNow

----------------------------------------------------------------------------
(* The pin specification: one LED save per behaviour, its pin drawn from   *)
(* -PinPad .. 39 + PinPad on every device                                  *)

PinRange == (0 - PinPad) .. (39 + PinPad)

PinInit == Device /\ probe \in {<<p>> : p \in PinRange}

PinSave ==
  /\ req.route = "boot"
  /\ \E ok \in BOOLEAN : LedSave(GoodCreds, probe, <<300>>, <<"G","R","B">>, ok)

PinSpec == PinInit /\ [][PinSave]_vars

(* The colour-order specification: one LED save per behaviour, its order   *)
(* drawn from every string of at most MaxLen characters of OrderAlphabet   *)

OrderAlphabet == {"R", "G", "B", "r", "g", "b", " "}

Strings(n) == UNION {[1..k -> OrderAlphabet] : k \in 0..n}

OrderInit ==
  /\ Device
  /\ ~chipC3
  /\ image = "Map" => cfg = MapDefaultCfg
  /\ probe \in Strings(MaxLen)

OrderSave ==
  /\ req.route = "boot"
  /\ \E ok \in BOOLEAN : LedSave(GoodCreds, <<4>>, <<300>>, probe, ok)

OrderSpec == OrderInit /\ [][OrderSave]_vars

(* The count specification: the admin routes of the single-strip (App)     *)
(* image, any sequence of them, the LED save's count drawn from within     *)
(* CountPad of both ends of 1..300                                         *)

CountRange == ((0 - CountPad) .. (1 + CountPad)) \cup ((300 - CountPad) .. (300 + CountPad))

CountInit == Init /\ image = "App"

CountSave ==
  \E p \in {<<4>>, <<-1>>}, n \in {<<>>} \cup {<<c>> : c \in CountRange}, ok \in BOOLEAN :
    LedSave(GoodCreds, p, n, <<"G","R","B">>, ok)

CountNext ==
  \/ CountSave
  \/ AdminHome
  \/ AdminLed
  \/ AdminLedTest
  \/ AdminReboot
  \/ Boot

CountSpec == CountInit /\ [][CountNext]_vars

(* The colour specification: one actuator test per behaviour, its c drawn  *)
(* from the four names, respellings of them and near misses                *)

ColorProbes ==
  { <<"r","e","d">>, <<"g","r","e","e","n">>, <<"b","l","u","e">>, <<"o","f","f">>,
    <<"R","E","D">>, <<"G","r","e","e","n">>, <<"B","L","U","E">>, <<"O","f","F">>,
    <<" ","r","e","d">>, <<"g","r","e","e","n"," ">>, <<" ","b","l","u","e"," ">>,
    <<" "," ","O","F","F">>,
    <<>>, <<" ">>, <<"r","e">>, <<"r","e","d","s">>, <<"r"," ","e","d">>,
    <<"g","r","e","n">>, <<"b","l","u","e","s">>, <<"o","f">>, <<"o","n">>,
    <<"w","h","i","t","e">>, <<"b","l","a","c","k">> }

ColorInit == Device /\ probe \in ColorProbes

ColorTest ==
  /\ req.route = "boot"
  /\ \E k \in Creds : Serve("/admin/led/test", <<k, probe>>, handleAdminLedTest(k, probe))

ColorSpec == ColorInit /\ [][ColorTest]_vars

(* The credentials specification: one request to an /admin route per       *)
(* behaviour, its user name and password drawn from CredProbes             *)

CredProbes == [user : {"admin", "root", ""}, pass : {"north", "south", ""}]

AuthInit == Device /\ probe \in {<<k>> : k \in CredProbes}

AuthRequest ==
  /\ req.route = "boot"
  /\ LET k == probe[1]
     IN  \/ Serve("/admin", <<k>>, handleAdminHome(k))
         \/ Serve("/admin/led", <<k>>, handleAdminLed(k))
         \/ \E ok \in BOOLEAN : LedSave(k, <<4>>, <<300>>, <<"B","G","R">>, ok)
         \/ Serve("/admin/led/test", <<k, <<"r","e","d">>>>,
                  handleAdminLedTest(k, <<"r","e","d">>))
         \/ Serve("/admin/reboot", <<k>>, handleAdminReboot(k))

AuthSpec == AuthInit /\ [][AuthRequest]_vars

(* The settings specification: any sequence of /ota/settings requests on   *)
(* the Map image, days missing or drawn from within DaysPad of both ends   *)
(* of 1..60, auto drawn from AutoProbes                                    *)

DaysRange == ((0 - DaysPad) .. (1 + DaysPad)) \cup ((60 - DaysPad) .. (60 + DaysPad))

AutoProbes ==
  { <<"o","n">>, <<" ","O","n"," ">>, <<"o","f","f">>, <<"o"," ","n">>, <<>> }

DaysInit == Init /\ image = "Map" /\ ~chipC3

DaysSettings ==
  \E a \in AutoProbes, d \in {<<>>} \cup {<<n>> : n \in DaysRange}, ok \in BOOLEAN :
    Serve("/ota/settings", <<a, d>>, handleOtaSettings(a, d, ok))

DaysSpec == DaysInit /\ [][DaysSettings]_vars

(* The repetition specification: one valid save request per behaviour,     *)
(* drawn from RepeatProbes, submitted again and again                      *)

RepeatProbes ==
  {Req("/admin/led/save", <<GoodCreds, <<p>>, <<n>>, o>>) :
     p \in {4, 13}, n \in {1, 300}, o \in {<<" ","b","g","r">>, <<"R","G","B">>}}
  \cup {Req("/save", <<"KJFK,SKIP", <<b>>>>) : b \in {50, 300}}
  \cup {Req("/ota/settings", <<<<"o","n">>, <<d>>>>) : d \in {0, 30}}

RepeatInit ==
  /\ Device
  /\ probe \in {<<r>> : r \in RepeatProbes}
  /\ image = "App" => probe[1].route = "/admin/led/save"

Resubmit ==
  LET a == probe[1].args
  IN  \E ok \in BOOLEAN :
        \/ /\ probe[1].route = "/admin/led/save"
           /\ LedSave(a[1], a[2], a[3], a[4], ok)
        \/ /\ probe[1].route = "/save"
           /\ Serve("/save", a, handleSave(a[1], a[2], ok))
        \/ /\ probe[1].route = "/ota/settings"
           /\ Serve("/ota/settings", a, handleOtaSettings(a[1], a[2], ok))

RepeatSpec == RepeatInit /\ [][Resubmit]_vars

(* The brightness specification: any sequence of /save requests on the Map *)
(* image, brightness missing or drawn from within BrightPad of both ends   *)
(* of 1..255                                                               *)

BrightRange == ((0 - BrightPad) .. (1 + BrightPad)) \cup ((255 - BrightPad) .. (255 + BrightPad))

BrightInit == Init /\ image = "Map"

BrightSave ==
  \E m \in MapListArgs \cup {""}, b \in {<<>>} \cup {<<n>> : n \in BrightRange}, ok \in BOOLEAN :
    Serve("/save", <<m, b>>, handleSave(m, b, ok))

BrightSpec == BrightInit /\ [][BrightSave]_vars

----------------------------------------------------------------------------
(* Properties *)

HasEv(l, e) == \E i \in 1..Len(l) : l[i] = e

HasOp(l, op) == \E i \in 1..Len(l) : l[i].op = op

SaveFailed(l) == HasEv(l, Ev("saveConfig", <<0>>))

\* C1: when saveConfig() fails in a saving handler (LED save, OTA settings,
\* /save), the live record is exactly what it was before the request and
\* the persisted copy is the prior one.
C1_FailedSaveLeavesRecord ==
  [][ (pc = "loop" /\ SaveFailed(log')) => (cfg' = cfg /\ disk' = disk) ]_vars

\* The persisted half of C1 alone, which the handlers do keep: a failed
\* saveConfig() leaves /config.json as it was.
FailedSaveKeepsFile ==
  [][ (pc = "loop" /\ SaveFailed(log')) => disk' = disk ]_vars

\* the rules of the three LED fields, as the specification words them
PinBlockedA(p) == p < 0 \/ p > 21 \/ p \in {18, 19}

PinBlockedB(p) ==
  p < 0 \/ p \in 6..11 \/ p \in 34..39 \/ p \in {0, 1, 2, 3, 12, 15} \/ p > 33

PinBlocked(c3, p) == IF c3 THEN PinBlockedA(p) ELSE PinBlockedB(p)

OrderPermutations == {f \in [1..3 -> {"R", "G", "B"}] : \A i, j \in 1..3 : f[i] = f[j] => i = j}

\* s without its leading and trailing blanks
Core(s) ==
  LET idx == {i \in 1..Len(s) : s[i] # " "}
  IN  IF idx = {} THEN <<>>
      ELSE SubSeq(s, CHOOSE i \in idx : \A j \in idx : i <= j,
                     CHOOSE i \in idx : \A j \in idx : i >= j)

Canonical(s) == [i \in 1..Len(s) |->
                   CASE s[i] = "r" -> "R" [] s[i] = "g" -> "G" [] s[i] = "b" -> "B"
                     [] OTHER -> s[i]]

LedFieldsValid(p, n, o) ==
  /\ ~PinBlocked(chipC3, toInt(p))
  /\ image = "App" => toInt(n) \in 1..300
  /\ Canonical(Core(o)) \in OrderPermutations

\* C2: an LED save submission in which at least one of pin, count, order
\* fails its rule applies none of its fields: the live record (and the
\* file) are what they were, whichever field failed.
C2_ValidationAtomic ==
  [][ ( /\ pc = "loop"
        /\ req'.route = "/admin/led/save"
        /\ ~LedFieldsValid(req'.args[2], req'.args[3], req'.args[4]) )
      => (cfg' = cfg /\ disk' = disk /\ ~HasOp(log', "saveConfig")) ]_vars

\* an LED save was rejected for its colour order after its pin had passed
C2_Witness ==
  /\ req.route = "/admin/led/save"
  /\ resp = Send(400, "Invalid color order.")
  /\ \E i \in 1..Len(log) : log[i].op = "isSafeGpioForNeoPixel" /\ log[i].arg[2] = 1

Privileged ==
  {"saveConfig", "setLEDColor", "clearLED", "restart", "otaCheckNow", "otaInstallNow"}

\* C3: in a request, no privileged side effect (persist, actuator test,
\* restart, OTA check/install) happens unless adminAuth() returned true
\* earlier in that request.
C3_PrivilegedAfterAuth ==
  req.route \notin {"boot", "tick"} =>
    \A i \in 1..Len(log) :
      log[i].op \in Privileged =>
        \E j \in 1..(i - 1) : log[j] = Ev("adminAuth", <<1>>)

Returned(ok, avail) == Ev("otaCheckNow:returned", <<ok, avail>>)

\* C4: otaInstallNow() is invoked only after a check that completed
\* successfully and found a newer asset (otaUpdateAvailable true); when the
\* check fails /ota/install answers 500, when nothing is pending it answers
\* "No update available", and in both cases nothing is installed.
C4_InstallOnlyWhenAvailable ==
  /\ HasOp(log, "otaInstallNow") =>
       /\ req.route = "/ota/install"
       /\ otaUpdateAvailable
       /\ \E i, j \in 1..Len(log) :
            i < j /\ log[i] = Returned(1, 1) /\ log[j].op = "otaInstallNow"
  /\ otaState = "Installing" => HasOp(log, "otaInstallNow")
  /\ (req.route = "/ota/install" /\ HasEv(log, Returned(0, 0))) =>
       (resp.code = 500 /\ ~HasOp(log, "otaInstallNow"))
  /\ (req.route = "/ota/install" /\ HasEv(log, Returned(1, 0))) =>
       (resp = Send(200, "No update available") /\ ~HasOp(log, "otaInstallNow"))

\* /ota/install found an update and entered otaInstallNow()
C4_Witness ==
  /\ req.route = "/ota/install"
  /\ otaState = "Installing"
  /\ HasOp(log, "otaInstallNow")

\* C5: an install request issued while the OTA state is Idle, UpToDate,
\* Checking or Failed does not contact the update source (no otaCheckNow()
\* on its behalf) and does not change lastCheckTimestamp.
C5_InstallInert ==
  [][ ( /\ pc = "loop"
        /\ req'.route = "/ota/install"
        /\ otaState \in {"Idle", "UpToDate", "Checking", "Failed"} )
      => (~HasOp(log', "otaCheckNow") /\ otaLastCheckMs' = otaLastCheckMs) ]_vars

\* C6: on every tick the auto-check fires a check iff otaAutoUpdate is
\* true, now - lastCheckTimestamp >= otaIntervalDays and the state is Idle,
\* UpToDate or Failed; the loop is never at a tick (or at a request) while
\* a check or an install is running.
C6_AutoCheckPolicy ==
  /\ [](pc = "loop" => otaState \notin {"Checking", "Installing"})
  /\ [][ (pc = "loop" /\ req'.route = "tick")
         => ( (pc' = "auto_check" /\ otaState' = "Checking" /\ HasOp(log', "otaCheckNow"))
              <=> ( /\ cfg.otaAutoUpdate
                    /\ now' - otaLastCheckMs >= cfg.otaIntervalDays
                    /\ otaState \in {"Idle", "UpToDate", "Failed"} ) ) ]_vars

\* a tick fired the auto-check
C6_Witness == req.route = "tick" /\ pc = "auto_check" /\ otaState = "Checking"

\* the policy was due in state Available and the tick did not fire
C6_WitnessHeld ==
  /\ req.route = "tick" /\ pc = "loop" /\ otaState = "Available"
  /\ cfg.otaAutoUpdate /\ now - otaLastCheckMs >= cfg.otaIntervalDays

\* C7: the pin check answers false on the C3 chip iff p<0, p>21 or
\* p in {18,19}, and on the standard chip iff p<0, p in 6..11, p in 34..39,
\* p in {0,1,2,3,12,15} or p>33; it answers true for every other p.
C7_PinPolicy ==
  req.route = "/admin/led/save" =>
    /\ Len(log) >= 2
    /\ log[2] = Ev("isSafeGpioForNeoPixel",
                   <<probe[1], IF PinBlocked(chipC3, probe[1]) THEN 0 ELSE 1>>)
    /\ (resp = Send(400, "Invalid/unsafe GPIO selected.")) <=> PinBlocked(chipC3, probe[1])

\* pin 18 was refused on the C3 chip
C7_Witness ==
  /\ req.route = "/admin/led/save" /\ chipC3 /\ probe = <<18>>
  /\ resp = Send(400, "Invalid/unsafe GPIO selected.")

\* C8: from the default record on, after any requests, the live record's
\* pin satisfies the policy of the running chip, and a request changes the
\* pin only to a value the policy was queried for and answered true.
C8_LivePinSafe ==
  /\ [](~PinBlocked(chipC3, cfg.led_pin))
  /\ [][ (pc = "loop" /\ cfg'.led_pin # cfg.led_pin)
         => \E i, j \in 1..Len(log') :
              /\ i < j
              /\ log'[i] = Ev("isSafeGpioForNeoPixel", <<cfg'.led_pin, 1>>)
              /\ log'[j].op = "saveConfig" ]_vars

\* a submitted pin was admitted into the live record
C8_Witness ==
  /\ req.route = "/admin/led/save"
  /\ cfg.led_pin # 5
  /\ cfg.led_pin = toInt(req.args[2])

\* an LED save was answered 200 or 500: its order was accepted
OrderWasAccepted == resp.code \in {200, 500}

\* C9 as stated: the order is accepted iff, letter case aside, it is one of
\* the six permutations of R, G, B.
C9_AcceptsExactlyPermutations ==
  req.route = "/admin/led/save" =>
    (OrderWasAccepted <=> Canonical(probe) \in OrderPermutations)

\* C9 amended: the order is accepted iff, letter case and leading and
\* trailing blanks aside, it is one of the six permutations of R, G, B;
\* the record then holds that permutation in upper case.
C9_AcceptsTrimmedPermutations ==
  req.route = "/admin/led/save" =>
    /\ OrderWasAccepted <=> Canonical(Core(probe)) \in OrderPermutations
    /\ OrderWasAccepted => cfg.led_order = Canonical(Core(probe))
    /\ ~OrderWasAccepted => (resp = Send(400, "Invalid color order.") /\ cfg.led_order = disk.led_order)

\* " brg" was accepted and stored as BRG
C9_Witness ==
  /\ req.route = "/admin/led/save"
  /\ probe = <<" ", "b", "r", "g">>
  /\ cfg.led_order = <<"B", "R", "G">>
  /\ resp.code = 200

\* provisioned and role "map", whatever the letter case
Operational(c) ==
  c.provisioned /\ [i \in 1..Len(c.app_role) |-> ToLowerChar(c.app_role[i])] = <<"m","a","p">>

AdminRoutes == {"/admin", "/admin/led", "/admin/led/save", "/admin/led/test", "/admin/reboot"}

\* C10: while the record is not operational, /save and /refresh answer 403
\* and neither change the record, persist nor refresh; the /admin routes
\* are still served: no 403, the credential check runs, and a valid LED
\* save is applied as on a provisioned device.
C10_ProvisioningGate ==
  [][ (pc = "loop" /\ image = "Map" /\ ~Operational(cfg)) =>
        /\ req'.route \in {"/save", "/refresh"} =>
             /\ resp' = Send(403, "Not provisioned")
             /\ cfg' = cfg /\ disk' = disk
             /\ ~HasOp(log', "saveConfig") /\ ~HasOp(log', "refreshNow")
        /\ req'.route \in AdminRoutes =>
             /\ resp'.code \in {200, 400, 401, 500}
             /\ resp'.code = 401 <=> ~authenticate(req'.args[1])
             /\ ( /\ req'.route = "/admin/led/save"
                  /\ authenticate(req'.args[1])
                  /\ LedFieldsValid(req'.args[2], req'.args[3], req'.args[4]) )
                => ( /\ cfg'.led_pin = toInt(req'.args[2])
                     /\ cfg'.led_order = Canonical(Core(req'.args[4]))
                     /\ HasOp(log', "saveConfig") ) ]_vars

\* /save was refused on a device stamped provisioned but for another role
C10_Witness ==
  /\ req.route = "/save"
  /\ resp = Send(403, "Not provisioned")
  /\ cfg.provisioned

\* the fields a saving route submits
SavedFields(route) ==
  CASE route = "/admin/led/save" -> {"led_pin", "led_count", "led_order"}
    [] route = "/save" -> {"map_list", "brightness"}
    [] route = "/ota/settings" -> {"otaAutoUpdate", "otaIntervalDays"}
    [] OTHER -> {}

\* C11: the persisted record only ever receives values from saves that
\* succeeded: a save that persists changes, in /config.json, no field other
\* than the ones it submitted, so a value left in the live record by a
\* failed save never reaches the file through a later save of other fields.
C11_PersistedOnlyFromSucceededSaves ==
  [][ (pc = "loop" /\ HasEv(log', Ev("saveConfig", <<1>>)))
      => \A f \in DOMAIN disk :
           disk'[f] # disk[f] => f \in SavedFields(req'.route) ]_vars

\* C12: on the App image an LED save whose count is outside 1..300 is
\* rejected (400, "Invalid LED count." once its pin has passed), persists
\* nothing and leaves the live record and the file as they were; the live
\* record's led_count is within 1..300 after any admin requests.
C12_CountWithinRange ==
  /\ [](cfg.led_count \in 1..300)
  /\ [][ ( /\ pc = "loop"
           /\ req'.route = "/admin/led/save"
           /\ authenticate(req'.args[1])
           /\ toInt(req'.args[3]) \notin 1..300 )
         => ( /\ resp'.code = 400
              /\ ~PinBlocked(chipC3, toInt(req'.args[2]))
                   => resp' = Send(400, "Invalid LED count.")
              /\ cfg' = cfg /\ disk' = disk
              /\ ~HasOp(log', "saveConfig") ) ]_vars

\* count=301 with a safe pin was refused after count=300 had been stored
C12_Witness ==
  /\ req.route = "/admin/led/save"
  /\ req.args[2] = <<4>> /\ req.args[3] = <<301>>
  /\ resp = Send(400, "Invalid LED count.")
  /\ cfg.led_count = 300

\* s in lower case
Lower(s) == [i \in 1..Len(s) |-> ToLowerChar(s[i])]

\* the actuator calls of a request, in the order they were made
ActuatorCalls(l) == SelectSeq(l, LAMBDA e : e.op \in {"setLEDColor", "clearLED"})

C14_ResponseBeforeRestart ==
  /\ \A i \in 1..Len(log) :
       log[i].op \in {"restart", "otaInstallNow"} =>
         \E j \in 1..(i - 1) : log[j].op = "send"
  /\ pc \in {"halted", "installing"} => resp.code = 200

\* an install went through and restarted the device
C14_Witness ==
  /\ req.route = "/ota/install"
  /\ pc = "halted"
  /\ HasOp(log, "restart")

\* C15: on every /admin route a request whose credentials are not the
\* static user name and password is answered with the authentication
\* challenge (401, not 403) and its operation does not run: the live
\* record and the file are unchanged, nothing is persisted, no actuator
\* call is made and the device does not restart.
C15_ChallengeAndNothingElse ==
  [][ ( /\ pc = "loop"
        /\ req'.route \in AdminRoutes
        /\ req'.args[1] # [user |-> "admin", pass |-> "north"] )
      => ( /\ resp' = Send(401, "requestAuthentication")
           /\ HasOp(log', "requestAuthentication")
           /\ cfg' = cfg /\ disk' = disk
           /\ ~HasOp(log', "saveConfig")
           /\ ActuatorCalls(log') = <<>>
           /\ ~HasOp(log', "restart")
           /\ pc' = "loop" ) ]_vars

\* /admin/reboot with the right password under another user name was
\* challenged
C15_Witness ==
  /\ req.route = "/admin/reboot"
  /\ probe = <<[user |-> "root", pass |-> "north"]>>
  /\ resp.code = 401
  /\ pc = "loop"

\* C16: after any sequence of /ota/settings requests, whatever their days
\* (missing, zero, negative, above 60), the live record's otaIntervalDays
\* is within 1..60 (the submitted value when that is within 1..60), and
\* its otaAutoUpdate is true exactly when the last request's auto was
\* "on", letter case and surrounding blanks aside.
C16_SettingsClamped ==
  /\ cfg.otaIntervalDays \in 1..60
  /\ req.route = "/ota/settings" =>
       /\ cfg.otaAutoUpdate <=> Lower(Core(req.args[1])) = <<"o","n">>
       /\ toInt(req.args[2]) \in 1..60 => cfg.otaIntervalDays = toInt(req.args[2])

\* days=61 with auto=" On " left 60 days and auto-update on
C16_Witness ==
  /\ req.route = "/ota/settings"
  /\ req.args = << <<" ","O","n"," ">>, <<61>> >>
  /\ cfg.otaIntervalDays = 60
  /\ cfg.otaAutoUpdate

\* C17: committing is idempotent: when a valid save request was persisted
\* and the same request is submitted again right after it, the live record
\* and the file are left as the first submission left them (whether or not
\* the second write succeeds); the live record is the same after the
\* second submission even when the first write had failed.
C17_RepeatedSaveIdempotent ==
  [][ (pc = "loop" /\ req' = req)
      => ( /\ HasEv(log, Ev("saveConfig", <<1>>)) => (cfg' = cfg /\ disk' = disk)
           /\ HasOp(log, "saveConfig") => cfg' = cfg ) ]_vars

\* /save with brightness 50 was persisted, and its repetition, whose write
\* failed, left record and file equal
C17_Witness ==
  /\ req.route = "/save"
  /\ req.args[2] = <<50>>
  /\ resp.code = 500
  /\ cfg = disk
  /\ disk.brightness = 50

\* how many events of l are calls of op
CountOp(l, op) == Len(SelectSeq(l, LAMBDA e : e.op = op))

Checking == pc \in {"check", "install_check", "auto_check"}

\* C18: a check that began runs to one outcome before the loop runs again:
\* the loop never sees the state Checking, each otaCheckNow() call returns
\* once, and when it returns the state is Available, UpToDate or Failed (or
\* the install it was made for starts) and lastCheckTimestamp is the
\* current time, whatever the outcome; /ota/check then answers 200 with the
\* status line when the check completed and 500 with it when it failed.
C18_CheckRunsToOutcome ==
  /\ [](pc = "loop" => otaState \in {"Idle", "Available", "UpToDate", "Failed"})
  /\ [](CountOp(log, "otaCheckNow")
          = CountOp(log, "otaCheckNow:returned") + (IF Checking THEN 1 ELSE 0))
  /\ [][ Checking =>
           /\ ~Checking'
           /\ otaLastCheckMs' = now
           /\ otaState' \in {"Available", "UpToDate", "Failed", "Installing"}
           /\ otaState' = "Installing" => (pc = "install_check" /\ otaUpdateAvailable')
           /\ pc = "check" =>
                /\ pc' = "loop"
                /\ resp'.body = otaStatusLine'
                /\ otaState' \in {"Available", "UpToDate"} => resp'.code = 200
                /\ otaState' = "Failed" => resp'.code = 500 ]_vars

\* a check made on the second day failed and was answered 500; the
\* timestamp is that day
C18_Witness ==
  /\ req.route = "/ota/check"
  /\ pc = "loop"
  /\ otaState = "Failed"
  /\ resp = Send(500, "Check failed")
  /\ now = 1 /\ otaLastCheckMs = 1

\* the pin check of the image that is not running
OtherImageIsSafe(c3, pin) ==
  IF image = "App" THEN MapIsSafeGpioForNeoPixel(c3, pin)
                   ELSE AppIsSafeGpioForNeoPixel(c3, pin)

\* C19: the pin checks of the two images agree on every pin and on either
\* chip: the answer the running image's LED save got from its check is the
\* answer of the other image's check, and the save is refused for its pin
\* exactly when the other image would refuse it.
C19_PinChecksEquivalent ==
  /\ \A c3 \in BOOLEAN, p \in PinRange :
       AppIsSafeGpioForNeoPixel(c3, p) <=> MapIsSafeGpioForNeoPixel(c3, p)
  /\ req.route = "/admin/led/save" =>
       /\ HasEv(log, Ev("isSafeGpioForNeoPixel",
                        <<probe[1], B2N(OtherImageIsSafe(chipC3, probe[1]))>>))
       /\ resp.code \in {200, 500} <=> OtherImageIsSafe(chipC3, probe[1])

\* the App image refused UART pin 3 on the standard chip
C19_Witness ==
  /\ req.route = "/admin/led/save"
  /\ image = "App" /\ ~chipC3 /\ probe = <<3>>
  /\ resp = Send(400, "Invalid/unsafe GPIO selected.")

\* C20: no step of the Map image changes the provisioning stamp: the
\* provisioned flag and the role of the live record and of the file stay
\* what they were, so the device stays operational or not for the whole
\* session; and its LED save changes no field of the live record other
\* than led_pin and led_order: led_count is left as it was.
C20_StampAndCountFramed ==
  [][ image = "Map" =>
        /\ cfg'.provisioned = cfg.provisioned /\ cfg'.app_role = cfg.app_role
        /\ disk'.provisioned = disk.provisioned /\ disk'.app_role = disk.app_role
        /\ (pc = "loop" /\ req'.route = "/admin/led/save") =>
             \A f \in DOMAIN cfg \ {"led_pin", "led_order"} : cfg'[f] = cfg[f] ]_vars

\* a provisioned Map device stored a new pin; stamp and count are as before
C20_Witness ==
  /\ image = "Map"
  /\ req.route = "/admin/led/save"
  /\ resp = Send(200, "Saved.")
  /\ cfg.led_pin # 5
  /\ cfg.provisioned /\ cfg.led_count = 1

\* C21: on a provisioned Map device, after any sequence of /save requests
\* the live record's brightness is within 1..255: a submitted value below 1
\* (or missing) is stored as 1, one above 255 as 255, any other as it is,
\* and the request is not refused for it; refreshNow() is called in /save
\* only after saveConfig() succeeded in that request.
C21_BrightnessClamped ==
  /\ [](image = "Map" => cfg.brightness \in 1..255)
  /\ [][ (pc = "loop" /\ req'.route = "/save" /\ Operational(cfg))
         => LET b == toInt(req'.args[2])
            IN  /\ cfg'.brightness = (IF b < 1 THEN 1 ELSE IF b > 255 THEN 255 ELSE b)
                /\ resp'.code \in {302, 500}
                /\ resp'.code = 302 <=> HasEv(log', Ev("saveConfig", <<1>>))
                /\ \A i \in 1..Len(log') :
                     log'[i].op = "refreshNow" =>
                       \E j \in 1..(i - 1) : log'[j] = Ev("saveConfig", <<1>>) ]_vars

\* brightness=256 was stored as 255, persisted, and the strip refreshed
C21_Witness ==
  /\ req.route = "/save"
  /\ req.args[2] = <<256>>
  /\ cfg.brightness = 255
  /\ disk.brightness = 255
  /\ HasOp(log, "refreshNow")
  /\ resp = Send(302, "Saved")

====
